---- MODULE Spec2Model ----
(***************************************************************************)
(* Model of parallel_api_tester.py: the ParallelAPITester class and the    *)
(* main() driver.  N requests are fanned out either on a thread pool       *)
(* (run_parallel_sync) or as coroutines gathered on one event loop         *)
(* (run_parallel_async); each yields one outcome record; analyze_results   *)
(* reduces the records to a report.                                        *)
(*                                                                         *)
(* Representation choices:                                                 *)
(*  - Python dicts are TLA+ records/functions; a missing key is a missing  *)
(*    field (see DictGet).                                                 *)
(*  - Python None is the string NoneVal; Str models str().                 *)
(*  - Strings are atomic; Chars gives the characters of every string the   *)
(*    model handles, so that "in" and lower() work on real characters.     *)
(*  - response_time_ms values are whole milliseconds.  Numbers the code    *)
(*    rounds to 2 decimals are held as the value times 100, the cost       *)
(*    (rounded to 4 decimals) as the value times 10000.                    *)
(*  - The 'timestamp' fields (wall-clock reads) are left out.              *)
(***************************************************************************)
EXTENDS Integers, Sequences, FiniteSets, TLC

VARIABLES
    mode,         \* "sync" | "async" (args.async_mode); "call" for a direct per-request call
    num_workers,  \* tester.num_workers
    results,      \* tester.results
    lock,         \* tester.lock: 0 when free, else the worker id holding it
    pc,           \* position of the driver (main / run_parallel_*)
    submitted,    \* number of loop iterations of the submit loop done so far
    wpc,          \* position of each worker thread / coroutine
    upstream,     \* what the remote API did for each request (input)
    local,        \* each worker's return value (result / error_result)
    analysis,     \* main's analysis: what run_parallel_* returned to main
    saved,        \* content of the report file written by save_detailed_report
    console,      \* driver-level messages printed so far
    issued,       \* number of HTTP GETs issued for each worker id
    runs,         \* number of run_parallel_* invocations started on the tester
    interrupted_at, \* where the driver was when Ctrl-C first arrived, or "none"
    processed     \* number of iterations done of the loop over the gathered results

vars == <<mode, num_workers, results, lock, pc, submitted, wpc, upstream,
          local, analysis, saved, console, issued, runs, interrupted_at,
          processed>>

----------------------------------------------------------------------------
(* Bounds *)

MaxWorkers == 3      \* largest --workers value explored in full runs
MaxWorkerId == 21    \* largest worker id explored in single calls
MaxRerunWorkers == 2 \* largest --workers value explored with repeated runs
MaxRuns == 2         \* largest number of runs started on one tester
MaxRecords == 3      \* longest record collection handed to the analyzer

----------------------------------------------------------------------------
(* Python values *)

NoneVal == "<None>"

\* None where the other values are dicts
NoneRec == [none |-> TRUE]

Str(v) == IF v = NoneVal THEN "None" ELSE v

DictGet(d, key, default) == IF key \in DOMAIN d THEN d[key] ELSE default

Chars(s) ==
  CASE
     s = "Forbidden (403)" -> <<"F","o","r","b","i","d","d","e","n"," ","(","4","0","3",")">>
  [] s = "Too Many Requests (429)" -> <<"T","o","o"," ","M","a","n","y"," ","R","e","q","u","e","s","t","s"," ","(","4","2","9",")">>
  [] s = "HTTP 500" -> <<"H","T","T","P"," ","5","0","0">>
  [] s = "HTTP 404" -> <<"H","T","T","P"," ","4","0","4">>
  [] s = "Rate limit exceeded" -> <<"R","a","t","e"," ","l","i","m","i","t"," ","e","x","c","e","e","d","e","d">>
  [] s = "Invalid JSON response" -> <<"I","n","v","a","l","i","d"," ","J","S","O","N"," ","r","e","s","p","o","n","s","e">>
  [] s = "API request denied" -> <<"A","P","I"," ","r","e","q","u","e","s","t"," ","d","e","n","i","e","d">>
  [] s = "The provided API key is invalid." -> <<"T","h","e"," ","p","r","o","v","i","d","e","d"," ","A","P","I"," ","k","e","y"," ","i","s"," ","i","n","v","a","l","i","d",".">>
  [] s = "Read timed out." -> <<"R","e","a","d"," ","t","i","m","e","d"," ","o","u","t",".">>
  [] s = "'list' object has no attribute 'get'" -> <<"'","l","i","s","t","'"," ","o","b","j","e","c","t"," ","h","a","s"," ","n","o"," ","a","t","t","r","i","b","u","t","e"," ","'","g","e","t","'">>
  [] s = "None" -> <<"N","o","n","e">>
  [] s = "" -> <<>>
  [] s = "OK" -> <<"O","K">>
  [] s = "ZERO_RESULTS" -> <<"Z","E","R","O","_","R","E","S","U","L","T","S">>
  [] s = "REQUEST_DENIED" -> <<"R","E","Q","U","E","S","T","_","D","E","N","I","E","D">>
  [] s = "INVALID_REQUEST" -> <<"I","N","V","A","L","I","D","_","R","E","Q","U","E","S","T">>
  [] s = "OVER_QUERY_LIMIT" -> <<"O","V","E","R","_","Q","U","E","R","Y","_","L","I","M","I","T">>
  [] s = "OVER_QUERY_LIMIT_DAILY" -> <<"O","V","E","R","_","Q","U","E","R","Y","_","L","I","M","I","T","_","D","A","I","L","Y">>
  [] s = "UNKNOWN" -> <<"U","N","K","N","O","W","N">>
  [] s = "rate limit" -> <<"r","a","t","e"," ","l","i","m","i","t">>
  [] s = "403" -> <<"4","0","3">>

LowerChar(c) ==
  CASE c = "A" -> "a" [] c = "B" -> "b" [] c = "C" -> "c" [] c = "D" -> "d"
    [] c = "E" -> "e" [] c = "F" -> "f" [] c = "G" -> "g" [] c = "H" -> "h"
    [] c = "I" -> "i" [] c = "J" -> "j" [] c = "K" -> "k" [] c = "L" -> "l"
    [] c = "M" -> "m" [] c = "N" -> "n" [] c = "O" -> "o" [] c = "P" -> "p"
    [] c = "Q" -> "q" [] c = "R" -> "r" [] c = "S" -> "s" [] c = "T" -> "t"
    [] c = "U" -> "u" [] c = "V" -> "v" [] c = "W" -> "w" [] c = "X" -> "x"
    [] c = "Y" -> "y" [] c = "Z" -> "z" [] OTHER -> c

\* character sequences: cs.lower() and "sub in cs"
Lower(cs) == [k \in 1..Len(cs) |-> LowerChar(cs[k])]

Contains(cs, sub) ==
    \E k \in 0..(Len(cs) - Len(sub)) :
        \A j \in 1..Len(sub) : cs[k + j] = sub[j]

----------------------------------------------------------------------------
(* Request Builder *)

test_queries ==
    << "copec", "restaurant santiago", "pharmacy chile", "bank santiago",
       "hospital chile", "shopping mall", "gas station", "coffee shop",
       "supermarket", "hotel santiago" >>

\* variant: the query list indexed from worker 1
create_request_params_from_first(worker_id) ==
    [ query |-> test_queries[((worker_id - 1) % Len(test_queries)) + 1],
      location |-> "-33.4489,-70.6693",
      radius |-> 50000,
      language |-> "es" ]

\* Python lists are 0-based, TLA+ sequences 1-based
create_request_params(worker_id) ==
    [ query |-> test_queries[(worker_id % Len(test_queries)) + 1],
      \* 'key' (the static credential) is left out
      location |-> "-33.4489,-70.6693",
      radius |-> 50000,
      language |-> "es" ]

----------------------------------------------------------------------------
(* What the remote API can do for one request (the input of a call).       *)
(*  kind "raise":    requests.get / session.get raises; exc is str(e)      *)
(*  kind "response": a response with a transport status arrives after      *)
(*                   elapsed_ms; for status 200 the body is                *)
(*                     "object"    a JSON object, data,                    *)
(*                     "invalid"   not JSON: json() raises JSONDecodeError *)
(*                     "nonobject" JSON but not an object (e.g. a list):   *)
(*                                 data.get raises AttributeError          *)

Raise(exc) == [kind |-> "raise", exc |-> exc]

Response(status, body, data, elapsed_ms) ==
    [kind |-> "response", status |-> status, body |-> body, data |-> data,
     elapsed_ms |-> elapsed_ms]

NoData == NoneRec

NonObjectError == "'list' object has no attribute 'get'"

Bodies ==
    { [status |-> "OK", results |-> <<"place", "place">>],
      [status |-> "OK"],
      [status |-> "ZERO_RESULTS", results |-> <<>>],
      [status |-> "REQUEST_DENIED",
       error_message |-> "The provided API key is invalid."],
      [status |-> "INVALID_REQUEST"],
      [status |-> "OVER_QUERY_LIMIT"],
      \* a label that is not the quota sentinel but contains it
      [status |-> "OVER_QUERY_LIMIT_DAILY"],
      [results |-> <<>>] }

Latencies == {90, 101, 130}

Upstream ==
    { Raise("Read timed out.") }
    \cup { Response(200, "object", d, t) : d \in Bodies, t \in Latencies }
    \cup { Response(200, "invalid", NoData, 101),
           Response(200, "nonobject", NoData, 101) }
    \cup { Response(c, "invalid", NoData, 101) : c \in {403, 404, 429, 500} }

\* the behaviours explored in full runs
RunUpstream ==
    { Raise("Read timed out."),
      Response(200, "object", [status |-> "OK", results |-> <<"place", "place">>], 90),
      Response(200, "object", [status |-> "OVER_QUERY_LIMIT"], 101) }

----------------------------------------------------------------------------
(* Per-request operations: the record each one builds *)

\* variant: the status code is not put into the message
HttpError_generic(code) == "HTTP error"

\* f'HTTP {response.status_code}', for the status codes of Upstream
HttpError(code) ==
    CASE code = 404 -> "HTTP 404"
      [] code = 500 -> "HTTP 500"

\* variant: the exception's text is not kept
ErrorRecord_fixed_text(worker_id, query, e) ==
    [ worker_id |-> worker_id,
      query |-> query,
      response_time_ms |-> 0,
      status_code |-> 0,
      success |-> FALSE,
      error |-> "Unknown error" ]

\* the dict built in the "except Exception as e" handlers
ErrorRecord(worker_id, query, e) ==
    [ worker_id |-> worker_id,
      query |-> query,
      response_time_ms |-> 0,
      status_code |-> 0,
      success |-> FALSE,
      error |-> e ]

\* variant: 'success' starts as True
InitialResult_success_default(worker_id, query, b) ==
    [ worker_id |-> worker_id,
      query |-> query,
      response_time_ms |-> b.elapsed_ms,
      status_code |-> b.status,
      success |-> TRUE,
      results_count |-> 0,
      api_status |-> "UNKNOWN",
      error |-> NoneVal ]

\* the dict built right after the response arrived
InitialResult(worker_id, query, b) ==
    [ worker_id |-> worker_id,
      query |-> query,
      response_time_ms |-> b.elapsed_ms,
      status_code |-> b.status,
      success |-> FALSE,
      results_count |-> 0,
      api_status |-> "UNKNOWN",
      error |-> NoneVal ]

\* the value single_api_call returns (and appends) for worker_id when the
\* remote API behaves as b
single_api_call(worker_id, b) ==
    LET params == create_request_params(worker_id)
        result == InitialResult(worker_id, params.query, b)
    IN  IF b.kind = "raise"
        THEN ErrorRecord(worker_id, params.query, b.exc)
        ELSE IF b.status = 200
        THEN IF b.body = "invalid"
             THEN [result EXCEPT !.error = "Invalid JSON response"]
             ELSE IF b.body = "nonobject"
             THEN ErrorRecord(worker_id, params.query, NonObjectError)
             ELSE LET api_status == DictGet(b.data, "status", "UNKNOWN")
                      r1 == [result EXCEPT !.api_status = api_status]
                  IN  IF api_status = "OK"
                      THEN [r1 EXCEPT !.success = TRUE,
                                      !.results_count = Len(DictGet(b.data, "results", <<>>))]
                      ELSE IF api_status \in {"REQUEST_DENIED", "INVALID_REQUEST"}
                      THEN [r1 EXCEPT !.error = DictGet(b.data, "error_message", "API request denied")]
                      ELSE IF api_status = "OVER_QUERY_LIMIT"
                      THEN [r1 EXCEPT !.error = "Rate limit exceeded"]
                      ELSE r1
        ELSE IF b.status = 403
        THEN [result EXCEPT !.error = "Forbidden (403)"]
        ELSE IF b.status = 429
        THEN [result EXCEPT !.error = "Too Many Requests (429)"]
        ELSE [result EXCEPT !.error = HttpError(b.status)]

\* variant: the OVER_QUERY_LIMIT label gets no error text
single_api_call_async_no_quota(worker_id, b) ==
    LET params == create_request_params(worker_id)
        result == InitialResult(worker_id, params.query, b)
    IN  IF b.kind = "raise"
        THEN ErrorRecord(worker_id, params.query, b.exc)
        ELSE IF b.status = 200
        THEN IF b.body = "invalid"
             THEN [result EXCEPT !.error = "Invalid JSON response"]
             ELSE IF b.body = "nonobject"
             THEN ErrorRecord(worker_id, params.query, NonObjectError)
             ELSE LET api_status == DictGet(b.data, "status", "UNKNOWN")
                      r1 == [result EXCEPT !.api_status = api_status]
                  IN  IF api_status = "OK"
                      THEN [r1 EXCEPT !.success = TRUE,
                                      !.results_count = Len(DictGet(b.data, "results", <<>>))]
                      ELSE IF api_status \in {"REQUEST_DENIED", "INVALID_REQUEST"}
                      THEN [r1 EXCEPT !.error = DictGet(b.data, "error_message", "API request denied")]
                      ELSE r1
        ELSE IF b.status = 403
        THEN [result EXCEPT !.error = "Forbidden (403)"]
        ELSE IF b.status = 429
        THEN [result EXCEPT !.error = "Too Many Requests (429)"]
        ELSE [result EXCEPT !.error = HttpError(b.status)]

\* the value the coroutine single_api_call_async returns
single_api_call_async(worker_id, b) ==
    LET params == create_request_params(worker_id)
        result == InitialResult(worker_id, params.query, b)
    IN  IF b.kind = "raise"
        THEN ErrorRecord(worker_id, params.query, b.exc)
        ELSE IF b.status = 200
        THEN IF b.body = "invalid"
             THEN [result EXCEPT !.error = "Invalid JSON response"]
             ELSE IF b.body = "nonobject"
             THEN ErrorRecord(worker_id, params.query, NonObjectError)
             ELSE LET api_status == DictGet(b.data, "status", "UNKNOWN")
                      r1 == [result EXCEPT !.api_status = api_status]
                  IN  IF api_status = "OK"
                      THEN [r1 EXCEPT !.success = TRUE,
                                      !.results_count = Len(DictGet(b.data, "results", <<>>))]
                      ELSE IF api_status \in {"REQUEST_DENIED", "INVALID_REQUEST"}
                      THEN [r1 EXCEPT !.error = DictGet(b.data, "error_message", "API request denied")]
                      ELSE IF api_status = "OVER_QUERY_LIMIT"
                      THEN [r1 EXCEPT !.error = "Rate limit exceeded"]
                      ELSE r1
        ELSE IF b.status = 403
        THEN [result EXCEPT !.error = "Forbidden (403)"]
        ELSE IF b.status = 429
        THEN [result EXCEPT !.error = "Too Many Requests (429)"]
        ELSE [result EXCEPT !.error = HttpError(b.status)]

----------------------------------------------------------------------------
(* Analyzer *)

(* Python floats.  A positive double is held as its 53 mantissa bits, most   *)
(* significant first, and the exponent of the last bit; zero has no bits.  *)
(* Every operation gives the double nearest to the exact result, ties to   *)
(* the even mantissa, as the machine's division and multiplication do.     *)

MantissaBits == 53

Float(bits, exp) == [bits |-> bits, exp |-> exp]

FloatZero == Float(<<>>, 0)

RECURSIVE Pow2(_)
Pow2(n) == IF n = 0 THEN 1 ELSE 2 * Pow2(n - 1)

\* the binary digits of a natural number, without leading zeros
RECURSIVE IntBits(_)
IntBits(n) == IF n = 0 THEN <<>> ELSE Append(IntBits(n \div 2), n % 2)

RECURSIVE BitsInt(_)
BitsInt(bits) ==
    IF bits = <<>> THEN 0
    ELSE 2 * BitsInt(SubSeq(bits, 1, Len(bits) - 1)) + bits[Len(bits)]

AnyOne(bits) == \E k \in 1..Len(bits) : bits[k] = 1

\* the next double above f
Increment(f) ==
    LET bits == f.bits
        zeros == {k \in 1..Len(bits) : bits[k] = 0}
    IN  IF zeros = {}
        THEN Float([k \in 1..Len(bits) |-> IF k = 1 THEN 1 ELSE 0], f.exp + 1)
        ELSE LET z == CHOOSE k \in zeros : \A j \in zeros : j <= k
             IN  Float([k \in 1..Len(bits) |->
                          IF k < z THEN bits[k] ELSE IF k = z THEN 1 ELSE 0], f.exp)

\* number of zero digits between the binary point and the first one of r / b,
\* for 0 < r < b
RECURSIVE LeadingZeros(_, _)
LeadingZeros(r, b) == IF 2 * r < b THEN 1 + LeadingZeros(2 * r, b) ELSE 0

\* long division: count more binary digits of acc + r / b, and the remainder
RECURSIVE QuotientBits(_, _, _, _)
QuotientBits(r, b, count, acc) ==
    IF count = 0 THEN [bits |-> acc, rem |-> r]
    ELSE LET t == 2 * r
             bit == IF t >= b THEN 1 ELSE 0
         IN  QuotientBits(t - b * bit, b, count - 1, Append(acc, bit))

\* a / b of two natural numbers, b > 0
FloatDiv(a, b) ==
    IF a = 0 THEN FloatZero
    ELSE LET whole == IntBits(a \div b)
             z == IF a \div b > 0 THEN 0 ELSE LeadingZeros(a % b, b)
             d == QuotientBits((a % b) * Pow2(z), b, MantissaBits - Len(whole), whole)
             f == Float(d.bits, 0 - (z + MantissaBits - Len(whole)))
         IN  IF 2 * d.rem > b \/ (2 * d.rem = b /\ d.bits[MantissaBits] = 1)
             THEN Increment(f)
             ELSE f

\* the binary digits of bits[1..k] * m + carry followed by acc, for a
\* natural number m
RECURSIVE TimesFrom(_, _, _, _, _)
TimesFrom(bits, k, m, carry, acc) ==
    IF k = 0 THEN IntBits(carry) \o acc
    ELSE LET t == bits[k] * m + carry
         IN  IF t % 2 = 0
             THEN TimesFrom(bits, k - 1, m, t \div 2, <<0>> \o acc)
             ELSE TimesFrom(bits, k - 1, m, t \div 2, <<1>> \o acc)

\* the binary digits of bits * m
TimesBits(bits, m) == TimesFrom(bits, Len(bits), m, 0, <<>>)

RoundToMantissa(bits, exp) ==
    IF Len(bits) <= MantissaBits THEN Float(bits, exp)
    ELSE LET keep == SubSeq(bits, 1, MantissaBits)
             drop == SubSeq(bits, MantissaBits + 1, Len(bits))
             f == Float(keep, exp + Len(drop))
         IN  IF drop[1] = 1 /\ (AnyOne(Tail(drop)) \/ keep[MantissaBits] = 1)
             THEN Increment(f)
             ELSE f

\* f * m for a natural number m
FloatTimes(f, m) ==
    IF f.bits = <<>> THEN f ELSE RoundToMantissa(TimesBits(f.bits, m), f.exp)

\* f > n for a natural number n
FloatExceeds(f, n) ==
    IF f.bits = <<>> THEN 0 > n
    ELSE IF f.exp >= 0 THEN BitsInt(f.bits) * Pow2(f.exp) > n
    ELSE LET w == Len(f.bits) + f.exp
         IN  IF w <= 0 THEN 0 >= n
             ELSE LET whole == BitsInt(SubSeq(f.bits, 1, w))
                  IN  whole > n \/ (whole = n /\ AnyOne(SubSeq(f.bits, w + 1, Len(f.bits))))

\* variant: ties rounded up
RoundHalfUp(bits, exp) ==
    IF bits = <<>> THEN 0
    ELSE IF exp >= 0 THEN BitsInt(bits) * Pow2(exp)
    ELSE LET w == Len(bits) + exp
         IN  IF w < 0 THEN 0
             ELSE LET whole == BitsInt(SubSeq(bits, 1, w))
                      frac == SubSeq(bits, w + 1, Len(bits))
                  IN  IF frac[1] = 1 THEN whole + 1 ELSE whole

\* the integer nearest to bits * 2^exp, ties to the even one: round() is
\* correctly rounded on the value the double holds
RoundHalfEven(bits, exp) ==
    IF bits = <<>> THEN 0
    ELSE IF exp >= 0 THEN BitsInt(bits) * Pow2(exp)
    ELSE LET w == Len(bits) + exp
         IN  IF w < 0 THEN 0
             ELSE LET whole == BitsInt(SubSeq(bits, 1, w))
                      frac == SubSeq(bits, w + 1, Len(bits))
                  IN  IF frac[1] = 1 /\ (AnyOne(Tail(frac)) \/ whole % 2 = 1)
                      THEN whole + 1
                      ELSE whole

\* round(f, 2), times 100
Round2(f) == RoundHalfEven(TimesBits(f.bits, 100), f.exp)

\* round(f, 4), times 10000
Round4(f) == RoundHalfEven(TimesBits(f.bits, 10000), f.exp)

\* cost_per_request = 0.017
cost_per_request == FloatDiv(17, 1000)

RECURSIVE Sum(_)
Sum(xs) == IF xs = <<>> THEN 0 ELSE Head(xs) + Sum(Tail(xs))

\* variant: the first latency taken for the smallest
First(xs) == xs[1]

Min(xs) == CHOOSE x \in {xs[k] : k \in 1..Len(xs)} :
               \A k \in 1..Len(xs) : x <= xs[k]

Max(xs) == CHOOSE x \in {xs[k] : k \in 1..Len(xs)} :
               \A k \in 1..Len(xs) : x >= xs[k]

IsSuccess(r) == r.success

IsFailure(r) == ~r.success

ErrorType(r) == DictGet(r, "error", "Unknown error")

\* variant: the default of the status line printed per request
ApiStatus_default_error(r) == DictGet(r, "api_status", "ERROR")

ApiStatus(r) == DictGet(r, "api_status", "UNKNOWN")

\* error_counts: error type -> number of failed records with it
ErrorCounts(failed) ==
    [ e \in {ErrorType(failed[j]) : j \in 1..Len(failed)} |->
        Cardinality({j \in 1..Len(failed) : ErrorType(failed[j]) = e}) ]

\* api_status_counts: status label -> number of records with it
ApiStatusCounts(rs) ==
    [ st \in {ApiStatus(rs[j]) : j \in 1..Len(rs)} |->
        Cardinality({j \in 1..Len(rs) : ApiStatus(rs[j]) = st}) ]

MentionsRateLimit(r) ==
    Contains(Lower(Chars(Str(DictGet(r, "error", "")))), Chars("rate limit"))

Mentions403(r) ==
    Contains(Chars(Str(DictGet(r, "error", ""))), Chars("403"))

HasOverQueryLimit(r) ==
    Contains(Chars(DictGet(r, "api_status", "")), Chars("OVER_QUERY_LIMIT"))

\* the value analyze_results returns for self.results = rs, self.num_workers = workers
analyze_results(rs, workers) ==
    IF rs = <<>> THEN NoneRec
    ELSE
    LET successful == SelectSeq(rs, IsSuccess)
        failed == SelectSeq(rs, IsFailure)
        total_requests == Len(rs)
        response_times == [k \in 1..Len(successful) |-> successful[k].response_time_ms]
        \* len(successful) / total_requests * 100
        success_rate == FloatTimes(FloatDiv(Len(successful), total_requests), 100)
    IN  [ test_config |->
            [ workers |-> workers,
              total_requests |-> total_requests ],
          success_metrics |->
            [ successful_requests |-> Len(successful),
              failed_requests |-> Len(failed),
              \* times 100
              success_rate_percent |-> Round2(success_rate) ],
          performance_metrics |->
            [ \* times 100
              avg_response_time_ms |->
                  IF response_times # <<>>
                  THEN Round2(FloatDiv(Sum(response_times), Len(response_times)))
                  ELSE 0,
              \* as in the records (not scaled)
              min_response_time_ms |->
                  IF response_times # <<>> THEN Min(response_times) ELSE 0,
              max_response_time_ms |->
                  IF response_times # <<>> THEN Max(response_times) ELSE 0 ],
          error_analysis |-> ErrorCounts(failed),
          api_status_distribution |-> ApiStatusCounts(rs),
          cost_analysis |->
            [ successful_requests |-> Len(successful),
              \* round(len(successful) * cost_per_request, 4), times 10000
              estimated_cost_usd |->
                  Round4(FloatTimes(cost_per_request, Len(successful))),
              \* 0.017, times 1000
              cost_per_request_usd |-> 17 ],
          security_assessment |->
            [ rate_limiting_detected |->
                  \E k \in 1..Len(failed) : MentionsRateLimit(failed[k]),
              api_restrictions_detected |->
                  \E k \in 1..Len(failed) : Mentions403(failed[k]),
              quota_exceeded |->
                  \E k \in 1..Len(rs) : HasOverQueryLimit(rs[k]),
              \* success_rate > 90
              full_functionality |-> FloatExceeds(success_rate, 90) ] ]

\* the document save_detailed_report writes
save_detailed_report(a, rs) ==
    [ analysis_summary |-> a, detailed_results |-> rs ]

----------------------------------------------------------------------------
(* State after "tester = ParallelAPITester(num_workers=args.workers)"      *)

Msg(text, n) == [msg |-> text, n |-> n]

Fresh(ids) ==
    /\ lock = 0
    /\ submitted = 0
    /\ upstream = [w \in ids |-> NoneRec]
    /\ local = [w \in ids |-> NoneRec]
    /\ analysis = NoneRec
    /\ saved = NoneRec
    /\ console = {}
    /\ issued = [w \in ids |-> 0]
    /\ runs = 0
    /\ interrupted_at = "none"
    /\ processed = 0

Init ==
    /\ mode \in {"sync", "async"}
    /\ num_workers \in 0..MaxWorkers
    /\ pc = "main"
    /\ results = <<>>
    /\ wpc = [w \in 1..num_workers |-> "idle"]
    /\ Fresh(1..num_workers)

----------------------------------------------------------------------------
(* Worker threads: single_api_call *)

\* variant: the loop index itself passed as worker id
WorkerIdFromZero(i) == i

\* the worker id given to iteration i of "for i in range(self.num_workers)":
\* executor.submit(self.single_api_call, i + 1) and
\* self.single_api_call_async(session, i + 1); thread / coroutine w of the
\* model is the one of iteration w - 1
WorkerId(i) == i + 1

\* variant: the lock is never waited for
LockIgnored(l) == TRUE

LockFree(l) == l = 0

\* variant: the record is put in front
PrependResult(rs, r) == <<r>> \o rs

\* variant: the record of a request that raised is not appended
AppendUnlessRaised(rs, r) == IF r.status_code = 0 THEN rs ELSE Append(rs, r)

\* self.results.append(result) / self.results.append(error_result)
AppendResult(rs, r) == Append(rs, r)

\* requests.get(...) is called: the GET goes out and the thread waits in the
\* call for the response
WorkerRequest(w) ==
    /\ mode = "sync"
    /\ wpc[w] = "call"
    /\ issued' = [issued EXCEPT ![w] = @ + 1]
    /\ wpc' = [wpc EXCEPT ![w] = "await"]
    /\ UNCHANGED <<mode, num_workers, results, lock, pc, submitted, upstream, local, analysis, saved, console, runs, interrupted_at, processed>>

\* requests.get returns or raises; result / error_result is built
WorkerResponse(w, inputs) ==
    /\ mode = "sync"
    /\ wpc[w] = "await"
    /\ \E b \in inputs :
          /\ upstream' = [upstream EXCEPT ![w] = b]
          /\ local' = [local EXCEPT ![w] = single_api_call(WorkerId(w - 1), b)]
    /\ wpc' = [wpc EXCEPT ![w] = "lock"]
    /\ UNCHANGED <<mode, num_workers, results, lock, pc, submitted, analysis, saved, console, issued, runs, interrupted_at, processed>>

\* "with self.lock:" entry
WorkerAcquire(w) ==
    /\ wpc[w] = "lock"
    /\ LockFree(lock)
    /\ lock' = w
    /\ wpc' = [wpc EXCEPT ![w] = "append"]
    /\ UNCHANGED <<mode, num_workers, results, pc, submitted, upstream, local, analysis, saved, console, issued, runs, interrupted_at, processed>>

\* self.results.append(result)
WorkerAppend(w) ==
    /\ wpc[w] = "append"
    /\ results' = AppendResult(results, local[w])
    /\ wpc' = [wpc EXCEPT ![w] = "release"]
    /\ UNCHANGED <<mode, num_workers, lock, pc, submitted, upstream, local, analysis, saved, console, issued, runs, interrupted_at, processed>>

\* "with self.lock:" exit, return; the future completes and worker_callback
\* prints the status line
WorkerRelease(w) ==
    /\ wpc[w] = "release"
    /\ lock' = 0
    /\ wpc' = [wpc EXCEPT ![w] = "done"]
    /\ UNCHANGED <<mode, num_workers, results, pc, submitted, upstream, local, analysis, saved, console, issued, runs, interrupted_at, processed>>

----------------------------------------------------------------------------
(* run_parallel_sync *)

\* variant: the driver goes on as soon as one request has completed
AnyDone(positions) == \E w \in DOMAIN positions : positions[w] = "done"

AllDone(positions) == \A w \in DOMAIN positions : positions[w] = "done"

\* ThreadPoolExecutor(max_workers=n) raises ValueError unless n > 0; the
\* exception leaves run_parallel_sync and is caught by main's
\* "except Exception"
RunSyncStart ==
    /\ pc = "main"
    /\ mode = "sync"
    /\ pc' = IF num_workers <= 0 THEN "error" ELSE "submit"
    /\ runs' = runs + 1
    /\ UNCHANGED <<mode, num_workers, results, lock, submitted, wpc, upstream, local, analysis, saved, console, issued, interrupted_at, processed>>

\* main's "except Exception" handler: the message is printed
HandleError ==
    /\ pc = "error"
    /\ console' = console \cup {Msg("unexpected_error", 0)}
    /\ pc' = "sysexit1"
    /\ UNCHANGED <<mode, num_workers, results, lock, submitted, wpc, upstream, local, analysis, saved, issued, runs, interrupted_at, processed>>

\* sys.exit(1)
ErrorExit ==
    /\ pc = "sysexit1"
    /\ pc' = "exit1"
    /\ UNCHANGED <<mode, num_workers, results, lock, submitted, wpc, upstream, local, analysis, saved, console, issued, runs, interrupted_at, processed>>

\* one iteration of "for i in range(self.num_workers)": submit worker i + 1
SubmitTask ==
    /\ pc = "submit"
    /\ submitted < num_workers
    /\ wpc' = [wpc EXCEPT ![submitted + 1] = "call"]
    /\ submitted' = submitted + 1
    /\ pc' = IF submitted + 1 = num_workers THEN "wait" ELSE "submit"
    /\ UNCHANGED <<mode, num_workers, results, lock, upstream, local, analysis, saved, console, issued, runs, interrupted_at, processed>>

\* the as_completed loop and the exit of the executor's with block
JoinSync ==
    /\ pc = "wait"
    /\ AllDone(wpc)
    /\ pc' = "analyze"
    /\ UNCHANGED <<mode, num_workers, results, lock, submitted, wpc, upstream, local, analysis, saved, console, issued, runs, interrupted_at, processed>>

----------------------------------------------------------------------------
(* run_parallel_async *)

\* asyncio.run(...) of main: while it runs it takes SIGINT itself. The first
\* Ctrl-C only requests the cancellation of the task running
\* run_parallel_async, which takes effect where that coroutine is suspended
\* or when it returns. The coroutine is suspended in gather (with no workers
\* gather has nothing to wait for and does not suspend) and not in the code
\* before it, in the loop over the gathered results or in analyze_results.
InCoroutine ==
    /\ mode = "async"
    /\ \/ pc \in {"process", "analyze", "analyzed"}
       \/ pc = "gather" /\ num_workers = 0

\* a cancellation requested by a first Ctrl-C has not taken effect yet
CancelPending ==
    /\ mode = "async"
    /\ interrupted_at # "none"
    /\ pc = "main" \/ InCoroutine

\* the coroutines for workers 1..N are created and handed to asyncio.gather;
\* a cancellation requested before takes effect as gather is awaited, before
\* any of the coroutines has started
RunAsyncStart ==
    /\ pc = "main"
    /\ mode = "async"
    /\ submitted' = num_workers
    /\ IF CancelPending /\ num_workers > 0
       THEN /\ wpc' = [w \in DOMAIN wpc |-> "cancelled"]
            /\ pc' = "interrupted"
       ELSE /\ wpc' = [w \in DOMAIN wpc |-> "call"]
            /\ pc' = "gather"
    /\ runs' = runs + 1
    /\ UNCHANGED <<mode, num_workers, results, lock, upstream, local, analysis, saved, console, issued, interrupted_at, processed>>

\* the coroutine runs up to "async with session.get(...)": the GET goes out
\* and the coroutine is suspended until the response arrives
CoroutineRequest(w) ==
    /\ mode = "async"
    /\ wpc[w] = "call"
    /\ issued' = [issued EXCEPT ![w] = @ + 1]
    /\ wpc' = [wpc EXCEPT ![w] = "await"]
    /\ UNCHANGED <<mode, num_workers, results, lock, pc, submitted, upstream, local, analysis, saved, console, runs, interrupted_at, processed>>

\* session.get raises, and the coroutine returns the error record; or the
\* response arrives and result is built: with status 200 the coroutine is
\* suspended again in "await response.json()", with another status the error
\* text is set and the coroutine is suspended in the exit of the async with
CoroutineResponse(w, inputs) ==
    /\ mode = "async"
    /\ wpc[w] = "await"
    /\ \E b \in inputs :
          /\ upstream' = [upstream EXCEPT ![w] = b]
          /\ IF b.kind = "raise"
             THEN /\ local' = [local EXCEPT ![w] = single_api_call_async(WorkerId(w - 1), b)]
                  /\ wpc' = [wpc EXCEPT ![w] = "done"]
             ELSE IF b.status = 200
             THEN /\ local' = [local EXCEPT ![w] =
                                  InitialResult(WorkerId(w - 1),
                                                create_request_params(WorkerId(w - 1)).query, b)]
                  /\ wpc' = [wpc EXCEPT ![w] = "json"]
             ELSE /\ local' = [local EXCEPT ![w] = single_api_call_async(WorkerId(w - 1), b)]
                  /\ wpc' = [wpc EXCEPT ![w] = "exit_with"]
    /\ UNCHANGED <<mode, num_workers, results, lock, pc, submitted, analysis, saved, console, issued, runs, interrupted_at, processed>>

\* "await response.json()" finishes and the body is evaluated; an exception
\* other than a JSON decode error leaves result as it is and goes through the
\* exit of the async with to the except clause
CoroutineJson(w) ==
    /\ mode = "async"
    /\ wpc[w] = "json"
    /\ local' = [local EXCEPT ![w] =
                    IF upstream[w].body = "nonobject"
                    THEN @
                    ELSE single_api_call_async(WorkerId(w - 1), upstream[w])]
    /\ wpc' = [wpc EXCEPT ![w] = "exit_with"]
    /\ UNCHANGED <<mode, num_workers, results, lock, pc, submitted, upstream, analysis, saved, console, issued, runs, interrupted_at, processed>>

\* the exit of the async with finishes; the coroutine returns result, or the
\* error record built by the except clause
CoroutineReturn(w) ==
    /\ mode = "async"
    /\ wpc[w] = "exit_with"
    /\ local' = [local EXCEPT ![w] = single_api_call_async(WorkerId(w - 1), upstream[w])]
    /\ wpc' = [wpc EXCEPT ![w] = "done"]
    /\ UNCHANGED <<mode, num_workers, results, lock, pc, submitted, upstream, analysis, saved, console, issued, runs, interrupted_at, processed>>

\* isinstance(result, Exception): gather(return_exceptions=True) hands back
\* the exception a coroutine raised in place of its return value
IsException(r) == "exception" \in DOMAIN r

NotException(r) == ~IsException(r)

\* variant: the records of failed requests are skipped as well
ProcessSuccessful(gathered) == SelectSeq(gathered, IsSuccess)

\* "for result in results": the records appended to self.results, in task order
ProcessGathered(gathered) == SelectSeq(gathered, NotException)

\* gather returns once every coroutine has finished
GatherDone ==
    /\ pc = "gather"
    /\ AllDone(wpc)
    /\ processed' = 0
    /\ pc' = IF num_workers = 0 THEN "analyze" ELSE "process"
    /\ UNCHANGED <<mode, num_workers, results, lock, submitted, wpc, upstream, local, analysis, saved, console, issued, runs, interrupted_at>>

\* one iteration of "for result in results": the status line is printed and
\* the record appended
ProcessResult ==
    /\ pc = "process"
    /\ processed < num_workers
    /\ results' = results \o ProcessGathered(<<local[processed + 1]>>)
    /\ processed' = processed + 1
    /\ pc' = IF processed + 1 = num_workers THEN "analyze" ELSE "process"
    /\ UNCHANGED <<mode, num_workers, lock, submitted, wpc, upstream, local, analysis, saved, console, issued, runs, interrupted_at>>

----------------------------------------------------------------------------
(* Analysis and report, as driven by run_parallel_* and main *)

\* analyze_results up to its last print: the 'nothing to analyze' message for
\* an empty collection, else the report is built and print_analysis shows it
Analyze ==
    /\ pc = "analyze"
    /\ console' = IF results = <<>>
                  THEN console \cup {Msg("no_results", 0)}
                  ELSE console \cup {Msg("analysis", Len(results))}
    /\ pc' = "analyzed"
    /\ UNCHANGED <<mode, num_workers, results, lock, submitted, wpc, upstream, local, analysis, saved, issued, runs, interrupted_at, processed>>

\* "return None" / "return analysis", through run_parallel_* to main's
\* "analysis = ..."; when run_parallel_async returns with a cancellation
\* pending, asyncio.run raises KeyboardInterrupt in place of returning the value
ReturnAnalysis ==
    /\ pc = "analyzed"
    /\ IF CancelPending
       THEN /\ pc' = "interrupted"
            /\ UNCHANGED analysis
       ELSE /\ analysis' = analyze_results(results, num_workers)
            /\ pc' = "save"
    /\ UNCHANGED <<mode, num_workers, results, lock, submitted, wpc, upstream, local, saved, console, issued, runs, interrupted_at, processed>>

\* variant: the report is saved whatever analyze_results returned
AlwaysTrue(a) == TRUE

\* truth value of "analysis" in "if analysis:" (None, or a non-empty dict)
Truthy(a) == a # NoneRec

\* the report file while json.dump is writing it: opened, not complete (not
\* valid JSON)
Truncated == [truncated |-> TRUE]

\* "if analysis: tester.save_detailed_report(analysis)", up to
\* open(filename, 'w'): the file exists
OpenReport ==
    /\ pc = "save"
    /\ IF Truthy(analysis)
       THEN /\ saved' = Truncated
            /\ pc' = "dump"
       ELSE /\ saved' = saved
            /\ pc' = "exit"
    /\ UNCHANGED <<mode, num_workers, results, lock, submitted, wpc, upstream, local, analysis, console, issued, runs, interrupted_at, processed>>

\* json.dump finishes and the file is closed
SaveReport ==
    /\ pc = "dump"
    /\ saved' = save_detailed_report(analysis, results)
    /\ pc' = "saved"
    /\ UNCHANGED <<mode, num_workers, results, lock, submitted, wpc, upstream, local, analysis, console, issued, runs, interrupted_at, processed>>

\* the line naming the report file is printed
PrintSaved ==
    /\ pc = "saved"
    /\ console' = console \cup {Msg("report_saved", 0)}
    /\ pc' = "return"
    /\ UNCHANGED <<mode, num_workers, results, lock, submitted, wpc, upstream, local, analysis, saved, issued, runs, interrupted_at, processed>>

\* "return filename": save_detailed_report returns and main leaves the try
\* block
ReturnSaved ==
    /\ pc = "return"
    /\ pc' = "exit"
    /\ UNCHANGED <<mode, num_workers, results, lock, submitted, wpc, upstream, local, analysis, saved, console, issued, runs, interrupted_at, processed>>

----------------------------------------------------------------------------
(* KeyboardInterrupt anywhere in main from the try block on *)

\* Ctrl-C while the driver is in the try block of main, or in the handler.
\* sync, in the executor's with block: the exception leaves the with block,
\* whose exit waits for the workers already submitted; Ctrl-C during that
\* wait abandons it, and the handler runs while workers are still running.
\* async, in gather: asyncio.run cancels the coroutines that have not
\* returned, wherever they are suspended.
\* Before the dispatch, in the loop over the gathered results, in
\* analyze_results (before or after its prints) or in save_detailed_report
\* (the file stays as far as it was written, complete once json.dump is
\* through; before or after its print): the exception goes straight to the
\* handler.
\* In either handler, or once main has left the try block: the exception
\* leaves main uncaught.
\* While run_parallel_async is running and not suspended, only a second
\* Ctrl-C raises the exception (the first is DeferInterrupt).
Interrupt ==
    /\ InCoroutine => CancelPending
    /\ \/ /\ pc \in {"submit", "wait"}
          /\ pc' = "shutdown"
          /\ UNCHANGED wpc
       \/ /\ pc = "gather"
          /\ pc' = "interrupted"
          /\ wpc' = [w \in DOMAIN wpc |-> IF wpc[w] = "done" THEN "done" ELSE "cancelled"]
       \/ /\ pc \in {"main", "shutdown", "process", "analyze", "analyzed", "save",
                   "dump", "saved", "return"}
          /\ pc' = "interrupted"
          /\ UNCHANGED wpc
       \/ /\ pc \in {"interrupted", "partial", "sysexit", "error", "sysexit1", "exit"}
          /\ pc' = "uncaught"
          /\ UNCHANGED wpc
    /\ interrupted_at' = IF interrupted_at = "none" THEN pc ELSE interrupted_at
    /\ UNCHANGED <<mode, num_workers, results, lock, submitted, upstream, local, analysis, saved, console, issued, runs, processed>>

\* the first Ctrl-C while run_parallel_async is running and not suspended (or
\* has not reached gather yet): the cancellation is requested and the
\* coroutine goes on
DeferInterrupt ==
    /\ mode = "async"
    /\ pc = "main" \/ InCoroutine
    /\ interrupted_at = "none"
    /\ interrupted_at' = pc
    /\ UNCHANGED <<mode, num_workers, results, lock, pc, submitted, wpc, upstream, local, analysis, saved, console, issued, runs, processed>>

\* the exit of "async with aiohttp.ClientSession()", after the loop over the
\* gathered results and before analyze_results: where closing the session
\* suspends the coroutine, a pending cancellation takes effect there
DeliverCancel ==
    /\ pc = "analyze"
    /\ CancelPending
    /\ pc' = "interrupted"
    /\ UNCHANGED <<mode, num_workers, results, lock, submitted, wpc, upstream, local, analysis, saved, console, issued, runs, interrupted_at, processed>>

\* the exit of the executor's with block: every submitted worker has finished
ShutdownJoin ==
    /\ pc = "shutdown"
    /\ \A w \in DOMAIN wpc : wpc[w] \in {"idle", "done"}
    /\ pc' = "interrupted"
    /\ UNCHANGED <<mode, num_workers, results, lock, submitted, wpc, upstream, local, analysis, saved, console, issued, runs, interrupted_at, processed>>

\* main's "except KeyboardInterrupt" handler: the first line is printed
HandleInterrupt ==
    /\ pc = "interrupted"
    /\ console' = console \cup {Msg("interrupted", 0)}
    /\ pc' = "partial"
    /\ UNCHANGED <<mode, num_workers, results, lock, submitted, wpc, upstream, local, analysis, saved, issued, runs, interrupted_at, processed>>

\* "if tester.results:" and the line with the number of records
PrintPartial ==
    /\ pc = "partial"
    /\ console' = console \cup
                    (IF results # <<>> THEN {Msg("partial_results", Len(results))} ELSE {})
    /\ pc' = "sysexit"
    /\ UNCHANGED <<mode, num_workers, results, lock, submitted, wpc, upstream, local, analysis, saved, issued, runs, interrupted_at, processed>>

\* sys.exit(0)
HandlerExit ==
    /\ pc = "sysexit"
    /\ pc' = "exit0"
    /\ UNCHANGED <<mode, num_workers, results, lock, submitted, wpc, upstream, local, analysis, saved, console, issued, runs, interrupted_at, processed>>

----------------------------------------------------------------------------
(* A full run of main *)

\* a run with one worker is explored with every behaviour of Upstream, a run
\* with more workers with those of RunUpstream
RunInputs == IF num_workers = 1 THEN Upstream ELSE RunUpstream

Next ==
    \/ RunSyncStart
    \/ HandleError
    \/ ErrorExit
    \/ SubmitTask
    \/ \E w \in DOMAIN wpc : WorkerRequest(w)
    \/ \E w \in DOMAIN wpc : WorkerResponse(w, RunInputs)
    \/ \E w \in DOMAIN wpc : WorkerAcquire(w)
    \/ \E w \in DOMAIN wpc : WorkerAppend(w)
    \/ \E w \in DOMAIN wpc : WorkerRelease(w)
    \/ JoinSync
    \/ RunAsyncStart
    \/ \E w \in DOMAIN wpc : CoroutineRequest(w)
    \/ \E w \in DOMAIN wpc : CoroutineResponse(w, RunInputs)
    \/ \E w \in DOMAIN wpc : CoroutineJson(w)
    \/ \E w \in DOMAIN wpc : CoroutineReturn(w)
    \/ GatherDone
    \/ ProcessResult
    \/ Analyze
    \/ ReturnAnalysis
    \/ OpenReport
    \/ SaveReport
    \/ PrintSaved
    \/ ReturnSaved
    \/ ShutdownJoin
    \/ DeferInterrupt
    \/ DeliverCancel
    \/ Interrupt
    \/ HandleInterrupt
    \/ PrintPartial
    \/ HandlerExit

Spec == Init /\ [][Next]_vars

----------------------------------------------------------------------------
(* Several runs on one tester object: after run_parallel_sync or            *)
(* run_parallel_async has returned, the caller invokes it again.  Neither   *)
(* method assigns self.results, so the records of earlier runs stay.        *)

RerunUpstream ==
    { Raise("Read timed out."),
      Response(200, "object", [status |-> "OK", results |-> <<"place", "place">>], 90) }

\* the locals of the finished run are gone; the tester keeps its fields
Rerun ==
    /\ pc = "exit"
    /\ runs < MaxRuns
    /\ pc' = "main"
    /\ submitted' = 0
    /\ wpc' = [w \in DOMAIN wpc |-> "idle"]
    /\ upstream' = [w \in DOMAIN wpc |-> NoneRec]
    /\ local' = [w \in DOMAIN wpc |-> NoneRec]
    /\ processed' = 0
    /\ UNCHANGED <<mode, num_workers, results, lock, analysis, saved, console, issued, runs, interrupted_at>>

InitRerun ==
    /\ mode \in {"sync", "async"}
    /\ num_workers \in 1..MaxRerunWorkers
    /\ pc = "main"
    /\ results = <<>>
    /\ wpc = [w \in 1..num_workers |-> "idle"]
    /\ Fresh(1..num_workers)

NextRerun ==
    \/ RunSyncStart
    \/ SubmitTask
    \/ \E w \in DOMAIN wpc : WorkerRequest(w)
    \/ \E w \in DOMAIN wpc : WorkerResponse(w, RerunUpstream)
    \/ \E w \in DOMAIN wpc : WorkerAcquire(w)
    \/ \E w \in DOMAIN wpc : WorkerAppend(w)
    \/ \E w \in DOMAIN wpc : WorkerRelease(w)
    \/ JoinSync
    \/ RunAsyncStart
    \/ \E w \in DOMAIN wpc : CoroutineRequest(w)
    \/ \E w \in DOMAIN wpc : CoroutineResponse(w, RerunUpstream)
    \/ \E w \in DOMAIN wpc : CoroutineJson(w)
    \/ \E w \in DOMAIN wpc : CoroutineReturn(w)
    \/ GatherDone
    \/ ProcessResult
    \/ Analyze
    \/ ReturnAnalysis
    \/ OpenReport
    \/ SaveReport
    \/ PrintSaved
    \/ ReturnSaved
    \/ ShutdownJoin
    \/ DeferInterrupt
    \/ DeliverCancel
    \/ Interrupt
    \/ HandleInterrupt
    \/ PrintPartial
    \/ HandlerExit
    \/ Rerun

SpecRerun == InitRerun /\ [][NextRerun]_vars

----------------------------------------------------------------------------
(* One per-request operation called on its own, for any worker id *)

InitCall ==
    /\ mode \in {"sync", "async"}
    /\ num_workers = MaxWorkerId
    /\ pc = "direct"
    /\ results = <<>>
    /\ \E w \in 1..MaxWorkerId :
          /\ Fresh({w})
          /\ wpc = [x \in {w} |-> "call"]

NextCall ==
    \/ \E w \in DOMAIN wpc : WorkerRequest(w)
    \/ \E w \in DOMAIN wpc : WorkerResponse(w, Upstream)
    \/ \E w \in DOMAIN wpc : WorkerAcquire(w)
    \/ \E w \in DOMAIN wpc : WorkerAppend(w)
    \/ \E w \in DOMAIN wpc : WorkerRelease(w)
    \/ \E w \in DOMAIN wpc : CoroutineRequest(w)
    \/ \E w \in DOMAIN wpc : CoroutineResponse(w, Upstream)
    \/ \E w \in DOMAIN wpc : CoroutineJson(w)
    \/ \E w \in DOMAIN wpc : CoroutineReturn(w)

SpecCall == InitCall /\ [][NextCall]_vars

----------------------------------------------------------------------------
(* analyze_results and the saving of its report, for any record collection *)

\* the ten records of the analyzer's reference example
SyntheticRecords ==
    << [success |-> TRUE, response_time_ms |-> 100],
       [success |-> TRUE, response_time_ms |-> 120],
       [success |-> TRUE, response_time_ms |-> 90],
       [success |-> TRUE, response_time_ms |-> 110],
       [success |-> TRUE, response_time_ms |-> 130],
       [success |-> TRUE, response_time_ms |-> 95],
       [success |-> TRUE, response_time_ms |-> 105],
       [success |-> TRUE, response_time_ms |-> 115],
       [success |-> FALSE, error |-> "Too Many Requests (429)"],
       [success |-> FALSE, error |-> "Forbidden (403)"] >>

AnalyzerUpstream ==
    RunUpstream \cup
    { Response(200, "object", [status |-> "OK", results |-> <<"place", "place">>], 101),
      Response(200, "object", [status |-> "OK", results |-> <<"place", "place">>], 130),
      Response(200, "nonobject", NoData, 101),
      Response(403, "invalid", NoData, 101),
      Response(200, "object", [status |-> "ZERO_RESULTS", results |-> <<>>], 101),
      Response(200, "object", [status |-> "OVER_QUERY_LIMIT_DAILY"], 101),
      Response(429, "invalid", NoData, 101) }

SampleRecords == { single_api_call(1, b) : b \in AnalyzerUpstream }

Collections ==
    UNION { [1..k -> SampleRecords] : k \in 0..MaxRecords } \cup {SyntheticRecords}

InitAnalyze ==
    /\ mode = "sync"
    /\ pc = "analyze"
    /\ wpc = <<>>
    /\ Fresh({})
    /\ \E rs \in Collections :
          /\ results = rs
          /\ num_workers = Len(rs)

NextAnalyze ==
    \/ Analyze
    \/ ReturnAnalysis
    \/ OpenReport
    \/ SaveReport
    \/ PrintSaved
    \/ ReturnSaved

SpecAnalyze == InitAnalyze /\ [][NextAnalyze]_vars

----------------------------------------------------------------------------
(* Properties *)

Settled == pc \in {"analyze", "analyzed", "save", "dump", "saved", "return", "exit"}

RecordsOf(w) == {k \in 1..Len(results) : results[k].worker_id = w}

\* the per-request operation of thread / coroutine w has built the value it
\* returns (the thread may still have to append it)
ValueBuilt(w) == wpc[w] \in {"lock", "append", "release", "done"}

\* C1: for N >= 1, once all dispatch work has settled (the driver is past
\* the join / gather), results holds exactly N records, under both
\* strategies and whatever the requests' outcomes
C1_ExactlyNRecords ==
    (Settled /\ num_workers >= 1) => Len(results) = num_workers

C1_Witness ==
    /\ pc = "exit"
    /\ mode = "sync"
    /\ num_workers >= 2
    /\ Len(results) = num_workers
    /\ \E i, j \in 1..Len(results) :
          /\ results[i].success
          /\ results[j].status_code = 0

\* C2 as stated: the record of worker i carries
\* test_queries[(i-1) mod len(test_queries)] (0-based list index)
C2_QueryFromFirst ==
    \A w \in DOMAIN wpc :
        ValueBuilt(w) =>
            local[w].query = test_queries[((w - 1) % Len(test_queries)) + 1]

\* C2 amended: the record of worker i carries
\* test_queries[i mod len(test_queries)] (0-based list index), in the value
\* returned under both strategies and in the record appended to results
C2_QueryByWorkerId ==
    /\ \A w \in DOMAIN wpc :
          ValueBuilt(w) =>
              /\ local[w].worker_id = w
              /\ local[w].query = test_queries[(w % Len(test_queries)) + 1]
    /\ \A k \in 1..Len(results) :
          results[k].query = test_queries[(results[k].worker_id % Len(test_queries)) + 1]

C2_Witness ==
    \E w \in DOMAIN wpc :
        /\ w = Len(test_queries) + 1
        /\ wpc[w] = "done"
        /\ mode = "sync"
        /\ Len(results) = 1
        /\ results[1].query = "restaurant santiago"
        /\ ~results[1].success

\* the request raised, or processing the response raised something other
\* than a JSON decode error
RaisedException(b) ==
    \/ b.kind = "raise"
    \/ b.kind = "response" /\ b.status = 200 /\ b.body = "nonobject"

ExceptionText(b) == IF b.kind = "raise" THEN b.exc ELSE NonObjectError

\* C3: when a request fails with an exception, the per-request operation
\* (sync and async) returns a record instead of raising, with status_code 0,
\* success false, response_time_ms 0 and the exception's text as error; the
\* sync operation has appended exactly that one record when it returns
C3_FailureRecord ==
    \A w \in DOMAIN wpc :
        (ValueBuilt(w) /\ RaisedException(upstream[w])) =>
            /\ ~IsException(local[w])
            /\ local[w].worker_id = w
            /\ local[w].status_code = 0
            /\ local[w].success = FALSE
            /\ local[w].response_time_ms = 0
            /\ local[w].error = ExceptionText(upstream[w])
            /\ (mode = "sync" /\ wpc[w] = "done") =>
                  /\ Cardinality(RecordsOf(w)) = 1
                  /\ \A k \in RecordsOf(w) : results[k] = local[w]

C3_Witness ==
    \E w \in DOMAIN wpc :
        /\ wpc[w] = "done"
        /\ mode = "sync"
        /\ upstream[w] = Raise("Read timed out.")
        /\ results = <<local[w]>>
        /\ local[w].error = "Read timed out."

\* C4: analysis starts (and its result exists) only when every one of the
\* N per-request operations has completed, under both strategies
C4_Barrier ==
    (Settled \/ analysis # NoneRec) =>
        \A w \in 1..num_workers : wpc[w] = "done"

C4_Witness ==
    /\ pc = "analyze"
    /\ mode = "sync"
    /\ num_workers >= 2
    /\ Len(results) = num_workers
    /\ results[1].worker_id = 2

InCriticalSection == {w \in DOMAIN wpc : wpc[w] \in {"append", "release"}}

FinishedAppend == {w \in DOMAIN wpc : wpc[w] \in {"release", "done"}}

\* C5: under the thread-pool strategy at most one worker is between the
\* acquisition and the release of the lock, and the length of results is
\* the number of workers that have done their append
C5_ExclusiveAppend ==
    mode = "sync" =>
        /\ Cardinality(InCriticalSection) <= 1
        /\ Len(results) = Cardinality(FinishedAppend)
        /\ (lock # 0 <=> InCriticalSection = {lock})

C5_Witness ==
    /\ mode = "sync"
    /\ \E w1, w2 \in DOMAIN wpc :
          /\ wpc[w1] = "append"
          /\ wpc[w2] = "lock"
          /\ lock = w1

\* C6: under the cooperative strategy, once the batch has settled every
\* request, failed or not, has exactly one record in results, equal to the
\* coroutine's return value, with its own worker_id and query
C6_FailuresIsolated ==
    (mode = "async" /\ Settled) =>
        \A w \in 1..num_workers :
            /\ wpc[w] = "done"
            /\ Cardinality(RecordsOf(w)) = 1
            /\ \A k \in RecordsOf(w) :
                  /\ results[k] = local[w]
                  /\ results[k].query = test_queries[(w % Len(test_queries)) + 1]
                  /\ results[k].success = (upstream[w].kind = "response"
                                           /\ upstream[w].status = 200
                                           /\ upstream[w].body = "object"
                                           /\ DictGet(upstream[w].data, "status", "UNKNOWN") = "OK")

C6_Witness ==
    /\ mode = "async"
    /\ pc = "exit"
    /\ num_workers >= 2
    /\ Len(results) = num_workers
    /\ results[1].status_code = 0
    /\ results[1].error = "Read timed out."
    /\ results[2].success

\* the driver was dispatching (submitting, or waiting for the workers or the
\* coroutines) when Ctrl-C arrived
InterruptedMidDispatch == interrupted_at \in {"submit", "wait", "gather"}

\* C7: after an interrupt during dispatch the driver has produced a report
\* over exactly the records collected so far when there are some, and the
\* 'nothing to analyze' message when there are none
C7_ReportAfterInterrupt ==
    (pc = "exit0" /\ InterruptedMidDispatch) =>
        IF results # <<>>
        THEN /\ analysis # NoneRec
             /\ analysis = analyze_results(results, num_workers)
        ELSE Msg("no_results", 0) \in console

\* C8: analyze_results on an empty collection returns None and prints the
\* 'nothing to analyze' message, and the driver then writes no report file;
\* on a non-empty collection it returns a report
C8_EmptyRefused ==
    pc \in {"save", "dump", "saved", "return", "exit"} =>
        IF results = <<>>
        THEN /\ analysis = NoneRec
             /\ Msg("no_results", 0) \in console
             /\ saved = NoneRec
        ELSE /\ analysis # NoneRec
             /\ analysis.test_config.total_requests = Len(results)
             /\ (pc \in {"saved", "return", "exit"} =>
                    saved = save_detailed_report(analysis, results))

C8_Witness ==
    /\ pc = "exit"
    /\ results = <<>>
    /\ analysis = NoneRec
    /\ saved = NoneRec
    /\ console = {Msg("no_results", 0)}

HasSuccess == \E k \in 1..Len(results) : results[k].success

\* C9: in every report the success rate is within [0, 100]; with at least
\* one successful record min <= avg <= max; with none all three are 0
\* (rate and avg are held times 100)
C9_RateAndLatencyBounds ==
    analysis # NoneRec =>
        LET perf == analysis.performance_metrics
            rate == analysis.success_metrics.success_rate_percent
        IN  /\ rate >= 0
            /\ rate <= 100 * 100
            /\ HasSuccess =>
                  /\ perf.min_response_time_ms * 100 <= perf.avg_response_time_ms
                  /\ perf.avg_response_time_ms <= perf.max_response_time_ms * 100
            /\ ~HasSuccess =>
                  /\ perf.avg_response_time_ms = 0
                  /\ perf.min_response_time_ms = 0
                  /\ perf.max_response_time_ms = 0

C9_Witness ==
    /\ analysis # NoneRec
    /\ Len(results) = 3
    /\ results[1].success /\ results[1].response_time_ms = 130
    /\ results[2].success /\ results[2].response_time_ms = 90
    /\ results[3].success /\ results[3].response_time_ms = 90
    /\ analysis.performance_metrics.min_response_time_ms = 90
    /\ analysis.performance_metrics.avg_response_time_ms = 10333
    /\ analysis.performance_metrics.max_response_time_ms = 130

SyntheticErrors ==
    ("Too Many Requests (429)" :> 1) @@ ("Forbidden (403)" :> 1)

SyntheticReportExceptAvg(a) ==
    /\ a.success_metrics.success_rate_percent = 80 * 100
    /\ a.performance_metrics.min_response_time_ms = 90
    /\ a.performance_metrics.max_response_time_ms = 130
    /\ a.error_analysis = SyntheticErrors
    /\ a.security_assessment.api_restrictions_detected = TRUE
    /\ a.security_assessment.rate_limiting_detected = FALSE

\* C10 as stated: for the ten synthetic records the report has success rate
\* 80.0, avg latency 108.125, min 90, max 130, the two errors counted once
\* each, api_restrictions_detected true and rate_limiting_detected false
\* (avg is held times 100, so 108.125 is 10812.5)
C10_SyntheticReportExactAvg ==
    (results = SyntheticRecords /\ pc \in {"save", "dump", "saved", "return", "exit"}) =>
        /\ SyntheticReportExceptAvg(analysis)
        /\ analysis.performance_metrics.avg_response_time_ms * 10 = 108125

\* C10 amended: the same, with the reported avg latency 108.12 (the mean
\* 108.125 rounded to 2 decimals)
C10_SyntheticReport ==
    (results = SyntheticRecords /\ pc \in {"save", "dump", "saved", "return", "exit"}) =>
        /\ SyntheticReportExceptAvg(analysis)
        /\ analysis.performance_metrics.avg_response_time_ms = 10812

C10_Witness ==
    /\ results = SyntheticRecords
    /\ pc = "exit"
    /\ analysis # NoneRec
    /\ analysis.success_metrics.successful_requests = 8
    /\ analysis.success_metrics.failed_requests = 2

\* C12: after a settled dispatch of N requests the worker_id values in
\* results are exactly 1..N, each carried by one record, under both
\* strategies
C12_WorkerIdsOnce ==
    (Settled /\ num_workers >= 1) =>
        /\ {results[k].worker_id : k \in 1..Len(results)} = 1..num_workers
        /\ \A w \in 1..num_workers : Cardinality(RecordsOf(w)) = 1

C12_Witness ==
    /\ pc = "save"
    /\ mode = "sync"
    /\ num_workers >= 2
    /\ results[1].worker_id = 2
    /\ results[2].worker_id = 1
    /\ ~results[2].success

\* the response has status 200, its body parsed to an object and the
\* object's status label is 'OK'
AnsweredOK(b) ==
    /\ b.kind = "response"
    /\ b.status = 200
    /\ b.body = "object"
    /\ "status" \in DOMAIN b.data
    /\ b.data.status = "OK"

ResultsListSize(b) ==
    IF "results" \in DOMAIN b.data THEN Len(b.data.results) ELSE 0

\* C13: a record produced by either per-request operation has success true
\* exactly when the status is 200, the body parsed and the label is 'OK';
\* then error is None and results_count is the size of the results list
C13_SuccessIffOK ==
    \A w \in DOMAIN wpc :
        ValueBuilt(w) =>
            /\ local[w].success = AnsweredOK(upstream[w])
            /\ local[w].success =>
                  /\ local[w].error = NoneVal
                  /\ local[w].status_code = 200
                  /\ local[w].api_status = "OK"
                  /\ local[w].results_count = ResultsListSize(upstream[w])

C13_Witness ==
    \E w \in DOMAIN wpc :
        /\ mode = "async"
        /\ wpc[w] = "done"
        /\ local[w].success
        /\ local[w].results_count = 2
        /\ local[w].error = NoneVal

\* C14: for a response with a status other than 200 the record keeps the
\* status code, has success false and api_status 'UNKNOWN', and its error is
\* 'Forbidden (403)' for 403, 'Too Many Requests (429)' for 429 and
\* 'HTTP <code>' otherwise; one GET is issued per call, whatever the outcome
C14_Non200Mapping ==
    \A w \in DOMAIN wpc :
        /\ issued[w] = IF wpc[w] \in {"idle", "call"} THEN 0 ELSE 1
        /\ (ValueBuilt(w)
              /\ upstream[w].kind = "response" /\ upstream[w].status # 200) =>
                /\ local[w].status_code = upstream[w].status
                /\ local[w].success = FALSE
                /\ local[w].api_status = "UNKNOWN"
                /\ local[w].error =
                      CASE upstream[w].status = 403 -> "Forbidden (403)"
                        [] upstream[w].status = 429 -> "Too Many Requests (429)"
                        [] upstream[w].status = 404 -> "HTTP 404"
                        [] upstream[w].status = 500 -> "HTTP 500"

C14_Witness ==
    \E w \in DOMAIN wpc :
        /\ mode = "sync"
        /\ wpc[w] = "done"
        /\ issued[w] = 1
        /\ upstream[w].kind = "response"
        /\ upstream[w].status = 500
        /\ local[w].error = "HTTP 500"
        /\ results = <<local[w]>>

ComparedFields ==
    {"worker_id", "query", "status_code", "success", "results_count",
     "api_status", "error"}

\* the compared fields of a record, as far as the record has them
Observed(r) == [f \in ComparedFields \cap DOMAIN r |-> r[f]]

\* what the operation of the strategy not in use returns for the request of
\* thread / coroutine w when the remote API behaves as b
OtherStrategy(w, b) ==
    IF mode = "sync"
    THEN single_api_call_async(WorkerId(w - 1), b)
    ELSE single_api_call(WorkerId(w - 1), b)

\* C15: for the same worker index and the same upstream behaviour the two
\* per-request operations give records equal in worker_id, query,
\* status_code, success, results_count, api_status and error; after a
\* settled run results holds, for each request, exactly one record equal in
\* these fields to what the other strategy yields for it, and nothing else
C15_StrategiesEquivalent ==
    /\ \A w \in DOMAIN wpc :
          ValueBuilt(w) =>
              Observed(local[w]) = Observed(OtherStrategy(w, upstream[w]))
    /\ (Settled /\ num_workers >= 1) =>
          /\ Len(results) = num_workers
          /\ \A w \in 1..num_workers :
                Cardinality({k \in 1..Len(results) :
                    Observed(results[k]) = Observed(OtherStrategy(w, upstream[w]))}) = 1

C15_Witness ==
    /\ pc = "exit"
    /\ mode = "async"
    /\ num_workers >= 2
    /\ Len(results) = num_workers
    /\ DictGet(results[1], "api_status", "UNKNOWN") = "OVER_QUERY_LIMIT"
    /\ results[1].error = "Rate limit exceeded"
    /\ results[2].status_code = 0

\* C16: results is append-only: in every step the previous contents of
\* results are an unchanged prefix of the new contents
C16_AppendOnly ==
    [][ /\ Len(results') >= Len(results)
        /\ SubSeq(results', 1, Len(results)) = results ]_vars

C16_Witness ==
    /\ pc = "exit"
    /\ mode = "sync"
    /\ Len(results) >= 2
    /\ saved # NoneRec
    /\ saved.detailed_results = results
    /\ results[1].worker_id > results[2].worker_id

\* C17: at the start of every run results is empty, and the report of a
\* completed run has total_requests equal to the configured worker count,
\* also for a second run on the same tester
C17_RunOwnsCollection ==
    /\ pc = "main" => results = <<>>
    /\ (pc \in {"save", "dump", "saved", "return", "exit"} /\ analysis # NoneRec) =>
          analysis.test_config.total_requests = num_workers

LabelOf(r) == IF "api_status" \in DOMAIN r THEN r.api_status ELSE "UNKNOWN"

\* C18: in every report quota_exceeded implies rate_limiting_detected; a
\* record with the label OVER_QUERY_LIMIT is failed with the error 'Rate
\* limit exceeded'; and quota_exceeded is true exactly when some record's
\* label is OVER_QUERY_LIMIT
C18_QuotaWithRateLimit ==
    analysis # NoneRec =>
        LET sec == analysis.security_assessment
        IN  /\ sec.quota_exceeded => sec.rate_limiting_detected
            /\ \A k \in 1..Len(results) :
                  LabelOf(results[k]) = "OVER_QUERY_LIMIT" =>
                      /\ ~results[k].success
                      /\ results[k].error = "Rate limit exceeded"
            /\ sec.quota_exceeded <=>
                  \E k \in 1..Len(results) : LabelOf(results[k]) = "OVER_QUERY_LIMIT"

RECURSIVE SumOver(_, _)
SumOver(hist, keys) ==
    IF keys = {} THEN 0
    ELSE LET x == CHOOSE x \in keys : TRUE
         IN  hist[x] + SumOver(hist, keys \ {x})

Total(hist) == SumOver(hist, DOMAIN hist)

FailedIndexes == {k \in 1..Len(results) : ~results[k].success}

ErrorOf(r) == IF "error" \in DOMAIN r THEN r.error ELSE "Unknown error"

\* the parts of C19 that do not depend on failed records having an error
\* string
HistogramsAddUp(a) ==
    /\ a.success_metrics.successful_requests + a.success_metrics.failed_requests
          = a.test_config.total_requests
    /\ a.test_config.total_requests = Len(results)
    /\ a.success_metrics.failed_requests = Cardinality(FailedIndexes)
    /\ Total(a.error_analysis) = a.success_metrics.failed_requests
    /\ \A e \in DOMAIN a.error_analysis :
          /\ \E k \in FailedIndexes : ErrorOf(results[k]) = e
          /\ a.error_analysis[e] = Cardinality({k \in FailedIndexes : ErrorOf(results[k]) = e})
    /\ Total(a.api_status_distribution) = a.test_config.total_requests
    /\ \A k \in 1..Len(results) :
          "api_status" \notin DOMAIN results[k] =>
              /\ "UNKNOWN" \in DOMAIN a.api_status_distribution
              /\ a.api_status_distribution["UNKNOWN"] =
                    Cardinality({j \in 1..Len(results) : LabelOf(results[j]) = "UNKNOWN"})

\* C19 as stated: successful + failed = total; the error histogram's counts
\* sum to failed_requests and its keys are error strings of failed records,
\* every failed record having an error string; the status histogram's
\* counts sum to total_requests with records without a label under 'UNKNOWN'
C19_HistogramsWithErrorStrings ==
    analysis # NoneRec =>
        /\ HistogramsAddUp(analysis)
        /\ \A e \in DOMAIN analysis.error_analysis : e # NoneVal
        /\ \A k \in FailedIndexes : ErrorOf(results[k]) # NoneVal

\* C19 amended: the same, except that a failed record may have no error
\* string (error None) and is then counted under the key None
C19_Histograms ==
    analysis # NoneRec =>
        /\ HistogramsAddUp(analysis)
        /\ \A k \in FailedIndexes :
              /\ ErrorOf(results[k]) \in DOMAIN analysis.error_analysis
              /\ ErrorOf(results[k]) = NoneVal =>
                    /\ results[k].status_code = 200
                    /\ results[k].api_status \notin
                          {"OK", "REQUEST_DENIED", "INVALID_REQUEST", "OVER_QUERY_LIMIT"}

C19_Witness ==
    /\ analysis # NoneRec
    /\ Len(results) = 3
    /\ results[1].success
    /\ "api_status" \notin DOMAIN results[2]
    /\ LabelOf(results[3]) = "ZERO_RESULTS"
    /\ DictGet(analysis.error_analysis, NoneVal, 0) = 1
    /\ DictGet(analysis.api_status_distribution, "UNKNOWN", 0) = 1


====
